---- MODULE Spec2Model ----
(***************************************************************************)
(* CombinedPlannerNode (combined_planner/src/CombinedPlannerNode.cpp):     *)
(* the mission supervisor between the planning engine (planner_), the tf   *)
(* transform provider (tf_) and the motion_control action client           *)
(* (motion_ac_).  Every handler of the node (update, updateMap,            *)
(* updateGoal, motionCtrlDoneCB) is one atomic action; the calls a handler *)
(* makes to its collaborators are recorded, in order, in last.calls.       *)
(***************************************************************************)
EXTENDS Integers, Sequences, FiniteSets, TLC

VARIABLES
    active_,         \* bool active_: a mission is running
    got_map_,        \* bool got_map_
    gmap_frame_id_,  \* std::string gmap_frame_id_
    gmap_cpy_,       \* nav_msgs::OccupancyGrid gmap_cpy_ (data 0: default-constructed)
    replan_timer_,   \* Stopwatch replan_timer_: ms since its last restart
    motion_ac_,      \* the action client's view of the command it sent
    planner_,        \* what the planning engine has been handed so far
    last,            \* the handler that ran last: inputs, prior state, calls
    deacts,          \* history: the latest deactivate() calls in a row
    quiet            \* history: consecutive ticks with hasNewLocalPath() false

vars == <<active_, got_map_, gmap_frame_id_, gmap_cpy_, replan_timer_,
          motion_ac_, planner_, last, deacts, quiet>>

----------------------------------------------------------------------------
(* Bounds of the model *)

\* number of distinct global maps the map topic delivers
MaxMaps == 2

\* longest local path the planning engine returns
MaxPathLen == 2

\* how many consecutive deactivate() calls the history remembers
DeactWindow == 2

\* how many consecutive quiet ticks the history counts before saturating
MaxQuiet == 5

\* the replan timer is followed up to this many ms
MaxElapsedMs == 700

----------------------------------------------------------------------------
(* Program constants *)

\* main(): ros::Rate rate( 10 ), one loop every 100 ms
LoopPeriodMs == 100

\* update(): the threshold of the replan timer test
ForceReplanIntervalMs == 500

----------------------------------------------------------------------------
(* Values *)

\* lib_path::Pose2d; theta in quarter turns
Poses == { [x |-> 0, y |-> 0, theta |-> 0], [x |-> 1, y |-> 2, theta |-> 1] }

RECURSIVE SeqsUpTo(_, _)
SeqsUpTo(S, n) ==
    IF n = 0 THEN { <<>> }
    ELSE LET shorter == SeqsUpTo(S, n - 1)
         IN  shorter \cup { Append(p, e) : p \in { q \in shorter : Len(q) = n - 1 }, e \in S }

\* the values planner_.getLocalPath() can return
LocalPaths == SeqsUpTo(Poses, MaxPathLen)

\* frame ids a goal message can carry
Frames == { "", "/map", "/odom" }

\* frame ids a map message can carry
MapFrames == { "/map", "/world" }

\* the nav_msgs::OccupancyGrid messages of the map topic
Maps == [data : 1..MaxMaps, frame_id : MapFrames]

Min(a, b) == IF a < b THEN a ELSE b

----------------------------------------------------------------------------
(* The call log *)

\* one recorded call; path/frame/hint are filled in by the calls that have
\* them, active is the value of active_ when the call is made
Ev(c) == [call |-> c, path |-> <<>>, frame |-> "", hint |-> FALSE,
          active |-> FALSE]

Log(s, e) == [s EXCEPT !.calls = Append(@, [e EXCEPT !.active = s.active_])]

PlanningEngineCalls ==
    { "setGlobalMap", "setLocalMap", "setGoal", "update", "isGoalReached",
      "hasValidPath", "hasNewLocalPath", "getLocalPath", "getGlobalPath",
      "getGlobalWaypoints" }

ExecutorClientCalls == { "waitForServer", "sendGoal", "cancelAllGoals" }

LogCalls == { "ROS_INFO", "ROS_WARN", "ROS_ERROR" }

\* number of entries of the log cs whose call is in the set C
Count(cs, C) == Cardinality({ i \in 1..Len(cs) : cs[i].call \in C })

----------------------------------------------------------------------------
(* Message conversion *)

\* tf::createQuaternionMsgFromYaw for a yaw of q quarter turns:
\* (z, w) = (sin(yaw/2), cos(yaw/2)), in thousandths
createQuaternionMsgFromYaw(q) ==
    CASE q = 0 -> [z |-> 0,    w |-> 1000]
      [] q = 1 -> [z |-> 707,  w |-> 707]
      [] q = 2 -> [z |-> 1000, w |-> 0]
      [] OTHER -> [z |-> 707,  w |-> -707]

\* one geometry_msgs::PoseStamped built from a Pose2d; its header is never set
PoseStamped(p) ==
    [x |-> p.x, y |-> p.y, orientation |-> createQuaternionMsgFromYaw(p.theta)]

plannerPathToRos(planner_p, ros_p) ==
    ros_p \o [i \in 1..Len(planner_p) |-> PoseStamped(planner_p[i])]

publishLocalPath(s, path) ==
    Log(s, [Ev("publishLocalPath") EXCEPT
                !.frame = s.gmap_frame_id_,
                !.path = [i \in 1..Len(path) |-> PoseStamped(path[i])]])

publishEmptyLocalPath(s) ==
    Log(s, [Ev("publishEmptyLocalPath") EXCEPT !.frame = s.gmap_frame_id_])

visualizePath(s) == Log(s, [Ev("visualizePath") EXCEPT !.frame = s.gmap_frame_id_])

visualizeWaypoints(s) ==
    Log(s, [Ev("visualizeWaypoints") EXCEPT !.frame = s.gmap_frame_id_])

----------------------------------------------------------------------------
(* The action client motion_ac_ *)

\* motion_ac_.cancelAllGoals(): a command that is running becomes cancelled
cancelAllGoals(s) ==
    Log([s EXCEPT !.motion_ac_ = IF @ = "running" THEN "cancelled" ELSE @],
        Ev("cancelAllGoals"))

\* motion_ac_.sendGoal(motionGoal, done callback): the client now tracks
\* this command
sendGoal(s, poses) ==
    Log([s EXCEPT !.motion_ac_ = "running"],
        [Ev("sendGoal") EXCEPT !.path = poses])

----------------------------------------------------------------------------
(* Inputs: what the collaborators answer during one handler *)

PlanOutcomes == { "ok", "CombinedPlannerException" }

\* answers of tf_, planner_ and motion_ac_ to the calls of one handler
Inputs ==
    [ frame        : Frames,        \* goal->header.frame_id
      tfOk         : BOOLEAN,       \* tf_.transformPose does not throw
      poseOk       : BOOLEAN,       \* tf_.lookupTransform does not throw
      goalReached  : BOOLEAN,       \* planner_.isGoalReached
      plan         : PlanOutcomes,  \* planner_.setGoal / planner_.update
      validPath    : BOOLEAN,       \* planner_.hasValidPath
      newLocalPath : BOOLEAN,       \* planner_.hasNewLocalPath
      serverReady  : BOOLEAN,       \* motion_ac_.waitForServer
      lpath        : LocalPaths ]   \* planner_.getLocalPath

\* the inputs of a handler that asks nothing
NoInputs ==
    [ frame |-> "", tfOk |-> TRUE, poseOk |-> TRUE, goalReached |-> FALSE,
      plan |-> "ok", validPath |-> TRUE, newLocalPath |-> FALSE,
      serverReady |-> TRUE, lpath |-> <<>> ]

\* The answers given during one update(): a call that is not reached is not
\* answered and keeps its value of NoInputs.
TickInputs ==
    { [NoInputs EXCEPT !.poseOk = FALSE],
      [NoInputs EXCEPT !.goalReached = TRUE],
      [NoInputs EXCEPT !.plan = "CombinedPlannerException"],
      [NoInputs EXCEPT !.validPath = FALSE],
      NoInputs }
    \cup { [NoInputs EXCEPT !.newLocalPath = TRUE, !.lpath = p] : p \in LocalPaths }

\* The answers given during one updateGoal(), after the frame of the goal
GoalAnswers ==
    { [NoInputs EXCEPT !.tfOk = FALSE],
      [NoInputs EXCEPT !.poseOk = FALSE],
      [NoInputs EXCEPT !.plan = "CombinedPlannerException"],
      [NoInputs EXCEPT !.validPath = FALSE],
      [NoInputs EXCEPT !.serverReady = FALSE] }
    \cup { [NoInputs EXCEPT !.lpath = p] : p \in LocalPaths }

GoalInputs == { [a EXCEPT !.frame = f] : a \in GoalAnswers, f \in Frames }

----------------------------------------------------------------------------
(* The node: the members of CombinedPlannerNode as one record, plus the    *)
(* log of the running handler                                              *)

Node ==
    [ active_ |-> active_, got_map_ |-> got_map_,
      gmap_frame_id_ |-> gmap_frame_id_, gmap_cpy_ |-> gmap_cpy_,
      replan_timer_ |-> replan_timer_,
      motion_ac_ |-> motion_ac_, planner_ |-> planner_,
      deacts |-> deacts, calls |-> <<>>, escaped |-> FALSE ]

\* the history keeps the latest DeactWindow deactivate() calls in a row
Remember(h, r) ==
    LET all == Append(h, r)
    IN  IF Len(all) > DeactWindow THEN Tail(all) ELSE all

\* history: the call of deactivate() that took the node from s to t
NoteDeactivate(s, t) ==
    LET r == [ cancels   |-> Count(t.calls, {"cancelAllGoals"})
                               - Count(s.calls, {"cancelAllGoals"}),
               effective |-> s.motion_ac_ # t.motion_ac_,
               before    |-> s.active_,
               after     |-> t.active_ ]
    IN  [t EXCEPT !.deacts = Remember(@, r)]

\* deactivate() with an early return when no mission is active
deactivate_guarded(s) ==
    IF ~s.active_
    THEN NoteDeactivate(s, s)
    ELSE LET s1 == Log(s, Ev("ROS_INFO"))
             s2 == cancelAllGoals(s1)
             s3 == [s2 EXCEPT !.active_ = FALSE]
         IN  NoteDeactivate(s, publishEmptyLocalPath(s3))

\* deactivate() clearing active_ before it cancels
deactivate_clearfirst(s) ==
    LET s1 == Log(s, Ev("ROS_INFO"))
        s2 == [s1 EXCEPT !.active_ = FALSE]
        s3 == cancelAllGoals(s2)
    IN  NoteDeactivate(s, publishEmptyLocalPath(s3))

\* void CombinedPlannerNode::deactivate()
deactivate(s) ==
    LET s1 == Log(s, Ev("ROS_INFO"))
        s2 == cancelAllGoals(s1)
        s3 == [s2 EXCEPT !.active_ = FALSE]
    IN  NoteDeactivate(s, publishEmptyLocalPath(s3))

\* bool CombinedPlannerNode::getRobotPose(pose, map_frame)
getRobotPose(s, i, map_frame) ==
    LET s1 == Log(s, [Ev("lookupTransform") EXCEPT !.frame = map_frame])
    IN  IF ~i.poseOk
        THEN [ok |-> FALSE, s |-> Log(s1, Ev("ROS_ERROR"))]
        ELSE [ok |-> TRUE, s |-> s1]

\* activate() that sends the command without waiting for the action server
activate_unchecked(s, i) ==
    LET s1 == IF s.active_ THEN deactivate(s) ELSE s
        s2 == Log(s1, Ev("getLocalPath"))
        s3 == sendGoal(s2, plannerPathToRos(i.lpath, <<>>))
        s4 == Log(s3, Ev("waitForServer"))
    IN  IF ~i.serverReady
        THEN Log(s4, Ev("ROS_WARN"))
        ELSE [s4 EXCEPT !.active_ = TRUE, !.deacts = <<>>]

\* void CombinedPlannerNode::activate()
activate(s, i) ==
    LET s1 == IF s.active_ THEN deactivate(s) ELSE s
        s2 == Log(s1, Ev("waitForServer"))
    IN  IF ~i.serverReady
        THEN Log(s2, Ev("ROS_WARN"))
        ELSE LET s3 == [s2 EXCEPT !.active_ = TRUE, !.deacts = <<>>]
                 s4 == Log(s3, Ev("getLocalPath"))
             IN  sendGoal(s4, plannerPathToRos(i.lpath, <<>>))

\* update(), lines 100-112, publishing on every tick
update_publish_always(s, i) ==
    LET s1 == Log(s, Ev("hasNewLocalPath"))
        s2 == Log(s1, Ev("ROS_INFO"))
        s3 == Log(s2, Ev("getLocalPath"))
        s4 == publishLocalPath(s3, i.lpath)
        s5 == Log([s4 EXCEPT !.replan_timer_ = 0], Ev("replan_timer_.restart"))
        s6 == Log(s5, Ev("getGlobalWaypoints"))
    IN  visualizeWaypoints(s6)

\* update(), lines 100-112, ending the mission when there is no new path
update_publish_giveup(s, i) ==
    LET s1 == Log(s, Ev("hasNewLocalPath"))
    IN  IF ~i.newLocalPath
        THEN deactivate(s1)
        ELSE LET s2 == Log(s1, Ev("ROS_INFO"))
                 s3 == Log(s2, Ev("getLocalPath"))
                 s4 == publishLocalPath(s3, i.lpath)
                 s5 == Log([s4 EXCEPT !.replan_timer_ = 0], Ev("replan_timer_.restart"))
                 s6 == Log(s5, Ev("getGlobalWaypoints"))
             IN  visualizeWaypoints(s6)

\* update(), lines 100-112, dropping the first pose of a longer path before
\* it is published
update_publish_popfront(s, i) ==
    LET s1 == Log(s, Ev("hasNewLocalPath"))
    IN  IF ~i.newLocalPath
        THEN s1
        ELSE LET s2 == Log(s1, Ev("ROS_INFO"))
                 s3 == Log(s2, Ev("getLocalPath"))
                 lpath == IF Len(i.lpath) > 1 THEN Tail(i.lpath) ELSE i.lpath
                 s4 == publishLocalPath(s3, lpath)
                 s5 == Log([s4 EXCEPT !.replan_timer_ = 0], Ev("replan_timer_.restart"))
                 s6 == Log(s5, Ev("getGlobalWaypoints"))
             IN  visualizeWaypoints(s6)

\* update(), lines 100-112: publish the new local path, if there is one
update_publish(s, i) ==
    LET s1 == Log(s, Ev("hasNewLocalPath"))
    IN  IF ~i.newLocalPath
        THEN s1
        ELSE LET s2 == Log(s1, Ev("ROS_INFO"))
                 s3 == Log(s2, Ev("getLocalPath"))
                 s4 == publishLocalPath(s3, i.lpath)
                 s5 == Log([s4 EXCEPT !.replan_timer_ = 0], Ev("replan_timer_.restart"))
                 s6 == Log(s5, Ev("getGlobalWaypoints"))
             IN  visualizeWaypoints(s6)

\* update(), lines 82-98, without the try/catch around planner_.update
update_plan_uncaught(s, i) ==
    LET s1 == Log(s, Ev("clearRobotFootprint"))
        s2 == Log(s1, Ev("getCostmapCopy"))
        s3 == Log([s2 EXCEPT !.planner_.lmap = TRUE], Ev("setLocalMap"))
        s4 == Log(s3, [Ev("update") EXCEPT !.hint = FALSE])
    IN  IF i.plan = "CombinedPlannerException"
        THEN [s4 EXCEPT !.escaped = TRUE]
        ELSE LET s5 == Log(s4, Ev("hasValidPath"))
             IN  IF ~i.validPath
                 THEN deactivate(s5)
                 ELSE update_publish(s5, i)

\* update(), lines 82-98: refresh the local map, let the planner update
update_plan(s, i) ==
    LET s1 == Log(s, Ev("clearRobotFootprint"))
        s2 == Log(s1, Ev("getCostmapCopy"))
        s3 == Log([s2 EXCEPT !.planner_.lmap = TRUE], Ev("setLocalMap"))
        s4 == Log(s3, [Ev("update") EXCEPT !.hint = FALSE])
    IN  IF i.plan = "CombinedPlannerException"
        THEN [deactivate(Log(s4, Ev("ROS_ERROR"))) EXCEPT !.active_ = FALSE]
        ELSE LET s5 == Log(s4, Ev("hasValidPath"))
             IN  IF ~i.validPath
                 THEN deactivate(s5)
                 ELSE update_publish(s5, i)

\* update() without the early return of an idle node
update_unguarded(s, i) ==
    LET p == getRobotPose(s, i, s.gmap_frame_id_)
    IN  IF ~p.ok
        THEN deactivate(p.s)
        ELSE LET s1 == Log(p.s, Ev("isGoalReached"))
             IN  IF i.goalReached
                 THEN [deactivate(Log(s1, Ev("ROS_INFO")))
                           EXCEPT !.active_ = FALSE]
                 ELSE update_plan(s1, i)

\* update() without the return after the goal is reached
update_fallthrough(s, i) ==
    IF ~s.active_
    THEN s
    ELSE LET p == getRobotPose(s, i, s.gmap_frame_id_)
         IN  IF ~p.ok
             THEN deactivate(p.s)
             ELSE LET s1 == Log(p.s, Ev("isGoalReached"))
                  IN  IF i.goalReached
                      THEN update_plan([deactivate(Log(s1, Ev("ROS_INFO")))
                                            EXCEPT !.active_ = FALSE], i)
                      ELSE update_plan(s1, i)

\* update() that gives up a tick without a pose, leaving the mission active
update_skip(s, i) ==
    IF ~s.active_
    THEN s
    ELSE LET p == getRobotPose(s, i, s.gmap_frame_id_)
         IN  IF ~p.ok
             THEN p.s
             ELSE LET s1 == Log(p.s, Ev("isGoalReached"))
                  IN  IF i.goalReached
                      THEN [deactivate(Log(s1, Ev("ROS_INFO")))
                                EXCEPT !.active_ = FALSE]
                      ELSE update_plan(s1, i)

\* void CombinedPlannerNode::update()
update(s, i) ==
    IF ~s.active_
    THEN s
    ELSE LET p == getRobotPose(s, i, s.gmap_frame_id_)
         IN  IF ~p.ok
             THEN deactivate(p.s)
             ELSE LET s1 == Log(p.s, Ev("isGoalReached"))
                  IN  IF i.goalReached
                      THEN [deactivate(Log(s1, Ev("ROS_INFO")))
                                EXCEPT !.active_ = FALSE]
                      ELSE update_plan(s1, i)

\* updateMap() ending the running mission when a new map arrives
updateMap_reset(s, map) ==
    deactivate([s EXCEPT !.gmap_cpy_ = map, !.gmap_frame_id_ = "/map",
                         !.got_map_ = TRUE])

\* void CombinedPlannerNode::updateMap(map)
updateMap(s, map) ==
    [s EXCEPT !.gmap_cpy_ = map, !.gmap_frame_id_ = "/map", !.got_map_ = TRUE]

\* updateGoal(), lines 150-186, setting the goal before the maps
updateGoal_plan_goalfirst(s, i) ==
    LET s1 == Log(s, Ev("setGoal"))
    IN  IF i.plan = "CombinedPlannerException"
        THEN Log(s1, Ev("ROS_ERROR"))
        ELSE LET s2 == Log([s1 EXCEPT !.planner_.goal = TRUE,
                                      !.planner_.gmap = TRUE], Ev("setGlobalMap"))
                 s3 == Log(s2, Ev("clearRobotFootprint"))
                 s4 == Log(s3, Ev("getCostmapCopy"))
                 s5 == Log([s4 EXCEPT !.planner_.lmap = TRUE], Ev("setLocalMap"))
                 s6 == Log(s5, Ev("hasValidPath"))
             IN  IF ~i.validPath
                 THEN Log(s6, Ev("ROS_WARN"))
                 ELSE LET s7 == activate(s6, i)
                          s8 == visualizePath(Log(s7, Ev("getGlobalPath")))
                          s9 == visualizeWaypoints(Log(s8, Ev("getGlobalWaypoints")))
                      IN  Log(s9, Ev("ROS_INFO"))

\* updateGoal(), lines 150-186: run the planner, start motion control
updateGoal_plan(s, i) ==
    LET s1 == Log([s EXCEPT !.planner_.gmap = TRUE], Ev("setGlobalMap"))
        s2 == Log(s1, Ev("clearRobotFootprint"))
        s3 == Log(s2, Ev("getCostmapCopy"))
        s4 == Log([s3 EXCEPT !.planner_.lmap = TRUE], Ev("setLocalMap"))
        s5 == Log(s4, Ev("setGoal"))
    IN  IF i.plan = "CombinedPlannerException"
        THEN Log(s5, Ev("ROS_ERROR"))
        ELSE LET s6 == Log([s5 EXCEPT !.planner_.goal = TRUE], Ev("hasValidPath"))
             IN  IF ~i.validPath
                 THEN Log(s6, Ev("ROS_WARN"))
                 ELSE LET s7 == activate(s6, i)
                          s8 == visualizePath(Log(s7, Ev("getGlobalPath")))
                          s9 == visualizeWaypoints(Log(s8, Ev("getGlobalWaypoints")))
                      IN  Log(s9, Ev("ROS_INFO"))

\* updateGoal() without the return after a failed frame conversion
updateGoal_noreturn(s, i) ==
    LET s1 == deactivate(Log(s, Ev("ROS_INFO")))
        foreign == i.frame # s1.gmap_frame_id_
        s2 == IF foreign
              THEN Log(s1, [Ev("transformPose") EXCEPT !.frame = s1.gmap_frame_id_])
              ELSE s1
        s3 == IF foreign /\ ~i.tfOk THEN Log(s2, Ev("ROS_ERROR")) ELSE s2
        p  == getRobotPose(s3, i, s3.gmap_frame_id_)
    IN  IF ~p.ok THEN p.s ELSE updateGoal_plan(p.s, i)

\* updateGoal() leaving the running mission to the guard of activate()
updateGoal_keep(s, i) ==
    LET s1 == Log(s, Ev("ROS_INFO"))
        foreign == i.frame # s1.gmap_frame_id_
        s2 == IF foreign
              THEN Log(s1, [Ev("transformPose") EXCEPT !.frame = s1.gmap_frame_id_])
              ELSE s1
    IN  IF foreign /\ ~i.tfOk
        THEN Log(s2, Ev("ROS_ERROR"))
        ELSE LET p == getRobotPose(s2, i, s2.gmap_frame_id_)
             IN  IF ~p.ok THEN p.s ELSE updateGoal_plan(p.s, i)

\* void CombinedPlannerNode::updateGoal(goal)
updateGoal(s, i) ==
    LET s1 == deactivate(Log(s, Ev("ROS_INFO")))
        foreign == i.frame # s1.gmap_frame_id_
        s2 == IF foreign
              THEN Log(s1, [Ev("transformPose") EXCEPT !.frame = s1.gmap_frame_id_])
              ELSE s1
    IN  IF foreign /\ ~i.tfOk
        THEN Log(s2, Ev("ROS_ERROR"))
        ELSE LET p == getRobotPose(s2, i, s2.gmap_frame_id_)
             IN  IF ~p.ok THEN p.s ELSE updateGoal_plan(p.s, i)

\* motionCtrlDoneCB() resuming the mission by itself
motionCtrlDoneCB_resume(s) == activate(s, NoInputs)

\* void CombinedPlannerNode::motionCtrlDoneCB(state, result): a stub
motionCtrlDoneCB(s) == s

\* The global map behind the pointer the planning engine holds: the
\* constructor makes gmap_wrapper_ a wrapper of &gmap_cpy_, and setGlobalMap
\* is given &gmap_wrapper_, so the engine is handed the buffer, not a copy.
EngineGlobalMap ==
    IF planner_.gmap THEN gmap_cpy_ ELSE [data |-> -1, frame_id |-> ""]

----------------------------------------------------------------------------
(* The state machine *)

\* CombinedPlannerNode::CombinedPlannerNode()
Init ==
    /\ active_ = FALSE
    /\ got_map_ = FALSE
    /\ gmap_frame_id_ = ""
    /\ gmap_cpy_ = [data |-> 0, frame_id |-> ""]
    /\ replan_timer_ = 0
    /\ motion_ac_ = "none"
    /\ planner_ = [gmap |-> FALSE, lmap |-> FALSE, goal |-> FALSE]
    /\ last = [op |-> "ctor", pre |-> FALSE, in |-> NoInputs, calls |-> <<>>,
               escaped |-> FALSE, elapsed |-> 0]
    /\ deacts = <<>>
    /\ quiet = [ticks |-> 0, pushes |-> 0]

\* the handler op ran on the inputs i, from the node s, and took it to r
Ran(op, i, s, r) ==
    /\ active_' = r.active_
    /\ replan_timer_' = r.replan_timer_
    /\ got_map_' = r.got_map_
    /\ gmap_frame_id_' = r.gmap_frame_id_
    /\ gmap_cpy_' = r.gmap_cpy_
    /\ motion_ac_' = r.motion_ac_
    /\ planner_' = r.planner_
    /\ deacts' = r.deacts
    /\ last' = [op |-> op, pre |-> s.active_, in |-> i, calls |-> r.calls,
                escaped |-> r.escaped, elapsed |-> s.replan_timer_]

\* history: ticks in a row on which hasNewLocalPath() is false, and the
\* paths pushed during them
QuietAfterTick(i, r) ==
    IF i.newLocalPath
    THEN [ticks |-> 0, pushes |-> 0]
    ELSE [ticks  |-> Min(quiet.ticks + 1, MaxQuiet),
          pushes |-> Min(quiet.pushes
                           + Count(r.calls, {"sendGoal", "publishLocalPath"}),
                         MaxQuiet)]

\* main(): rate.sleep() lets one loop period pass on the replan timer
Slept(s) ==
    [s EXCEPT !.replan_timer_ = Min(@ + LoopPeriodMs, MaxElapsedMs)]

\* main(): node.update(), once per loop
Tick ==
    \E i \in TickInputs :
        LET s == Slept(Node)
            r == update(s, i)
        IN  /\ Ran("update", i, s, r)
            /\ quiet' = QuietAfterTick(i, r)

\* main(): ros::spinOnce() delivers a map
UpdateMap ==
    \E map \in Maps :
        /\ Ran("updateMap", NoInputs, Node, updateMap(Node, map))
        /\ quiet' = [ticks |-> 0, pushes |-> 0]

\* main(): ros::spinOnce() delivers a goal
UpdateGoal ==
    \E i \in GoalInputs :
        /\ Ran("updateGoal", i, Node, updateGoal(Node, i))
        /\ quiet' = [ticks |-> 0, pushes |-> 0]

\* main(): ros::spinOnce() delivers the result of the command the action
\* client tracks; the client then tracks nothing
MotionCtrlDone ==
    /\ motion_ac_ \in {"running", "cancelled"}
    /\ Ran("motionCtrlDoneCB", NoInputs, Node,
           motionCtrlDoneCB([Node EXCEPT !.motion_ac_ = "none"]))
    /\ quiet' = [ticks |-> 0, pushes |-> 0]

Next == Tick \/ UpdateMap \/ UpdateGoal \/ MotionCtrlDone

Spec == Init /\ [][Next]_vars

----------------------------------------------------------------------------
(* Properties *)

\* number of calls of the set C made by the handler that ran last
Calls(C) == Count(last.calls, C)

PathPublications == { "publishLocalPath", "publishEmptyLocalPath" }

\* the calls that hand a path to follow to the executor
PathPushes == { "sendGoal", "publishLocalPath" }

\* the goal of the last goal request was in another frame than the global
\* map (updateGoal leaves gmap_frame_id_ as it is)
ForeignFrame == last.in.frame # gmap_frame_id_

\* ros is the message form of the planner path lp
IsRosPathOf(ros, lp) ==
    /\ Len(ros) = Len(lp)
    /\ \A k \in 1..Len(lp) :
          /\ ros[k].x = lp[k].x
          /\ ros[k].y = lp[k].y
          /\ ros[k].orientation = createQuaternionMsgFromYaw(lp[k].theta)

\* C1: a tick that starts Idle calls neither the planning engine nor the
\* executor client, publishes no path and leaves the state Idle.
C1_IdleTickNoOp ==
    (last.op = "update" /\ ~last.pre) =>
        /\ Calls(PlanningEngineCalls) = 0
        /\ Calls(ExecutorClientCalls) = 0
        /\ Calls(PathPublications) = 0
        /\ ~active_

\* an idle tick after a mission has run
C1_Witness ==
    last.op = "update" /\ ~last.pre /\ planner_.goal /\ motion_ac_ = "cancelled"

\* C2: after a goal request either setGoal succeeded, the path is valid, the
\* action server was ready, the state is Active and exactly one sendGoal with
\* the engine's local path was issued, or the state is Idle and no sendGoal
\* was issued.
C2_ActivationAtomic ==
    last.op = "updateGoal" =>
        \/ /\ active_
           /\ Calls({"setGoal"}) = 1 /\ last.in.plan = "ok"
           /\ Calls({"hasValidPath"}) = 1 /\ last.in.validPath
           /\ Calls({"waitForServer"}) = 1 /\ last.in.serverReady
           /\ Calls({"sendGoal"}) = 1
           /\ \A k \in 1..Len(last.calls) :
                 last.calls[k].call = "sendGoal" =>
                     IsRosPathOf(last.calls[k].path, last.in.lpath)
        \/ /\ ~active_
           /\ Calls({"sendGoal"}) = 0

\* a goal request activated the mission with a path of two poses
C2_Witness ==
    last.op = "updateGoal" /\ active_ /\ Len(last.in.lpath) = 2

\* C3: the state is Active exactly when the executor holds a command of this
\* node that is not cancelled.
C3_ActiveIffCommandHeld == active_ <=> (motion_ac_ = "running")

\* the last two deactivate() calls in a row
Second == deacts[Len(deacts)]
First == deacts[Len(deacts) - 1]

\* C4 as claimed: two deactivate() calls in a row make exactly one
\* cancelAllGoals call, and the second leaves the state Idle as it was.
C4_OneCancelInTwo ==
    Len(deacts) >= 2 =>
        /\ First.cancels + Second.cancels = 1
        /\ ~Second.before /\ ~Second.after

\* C4 as amended: two deactivate() calls in a row make two cancelAllGoals
\* calls, of which the second cancels nothing, and the second call finds and
\* leaves the state Idle.
C4_TwoCancelsOneEffective ==
    Len(deacts) >= 2 =>
        /\ First.cancels + Second.cancels = 2
        /\ ~Second.effective
        /\ ~Second.before /\ ~Second.after

\* deactivate() ran twice in a row and the first call cancelled a command
C4_Witness == Len(deacts) >= 2 /\ First.effective /\ First.before

\* C5: a tick on which hasNewLocalPath() is false sends no command and
\* publishes no local path; over a run of such ticks nothing is pushed.
C5_NoPushWithoutNewPath ==
    /\ (last.op = "update" /\ ~last.in.newLocalPath) => Calls(PathPushes) = 0
    /\ quiet.pushes = 0

\* five quiet ticks in a row of an active mission that asked hasNewLocalPath
C5_Witness ==
    /\ quiet.ticks >= 5
    /\ last.op = "update" /\ active_ /\ Calls({"hasNewLocalPath"}) = 1

\* C6: an Active tick with a pose on which the goal is reached calls neither
\* update nor setLocalMap, calls cancelAllGoals and ends Idle.
C6_GoalReachedFirst ==
    (last.op = "update" /\ last.pre /\ last.in.poseOk /\ last.in.goalReached) =>
        /\ Calls({"update", "setLocalMap"}) = 0
        /\ Calls({"cancelAllGoals"}) >= 1
        /\ ~active_

C6_Witness ==
    /\ last.op = "update" /\ last.pre /\ last.in.poseOk /\ last.in.goalReached
    /\ Calls({"isGoalReached"}) = 1

\* C7 as claimed: a goal in a foreign frame whose conversion fails leaves the
\* state Idle, makes no planning engine call and makes one log entry.
C7_ForeignGoalOneLogEntry ==
    (last.op = "updateGoal" /\ ForeignFrame /\ ~last.in.tfOk) =>
        /\ ~active_
        /\ Calls(PlanningEngineCalls) = 0
        /\ Calls(LogCalls) = 1

\* C7 as amended: a goal in a foreign frame whose conversion fails leaves the
\* state Idle, makes no planning engine call and logs one error, after the
\* two informational entries of the goal's arrival and of the deactivation.
C7_ForeignGoalOneError ==
    (last.op = "updateGoal" /\ ForeignFrame /\ ~last.in.tfOk) =>
        /\ ~active_
        /\ Calls(PlanningEngineCalls) = 0
        /\ Calls({"ROS_ERROR"}) = 1
        /\ Calls({"ROS_INFO"}) = 2
        /\ Calls(LogCalls) = 3

\* a goal in /odom, with the map in /map, and no transform, while Active
C7_Witness ==
    /\ last.op = "updateGoal" /\ ForeignFrame /\ ~last.in.tfOk
    /\ last.in.frame = "/odom" /\ gmap_frame_id_ = "/map" /\ last.pre
    /\ Calls({"transformPose"}) = 1

\* C8: an Active tick whose pose lookup fails ends Idle, calls cancelAllGoals
\* once and makes no planning engine call.
C8_PoseFailureDeactivates ==
    (last.op = "update" /\ last.pre /\ ~last.in.poseOk) =>
        /\ ~active_
        /\ Calls({"cancelAllGoals"}) = 1
        /\ Calls(PlanningEngineCalls) = 0

C8_Witness ==
    /\ last.op = "update" /\ last.pre /\ ~last.in.poseOk
    /\ Calls({"lookupTransform"}) = 1

\* the planner failed on the last tick: update threw, or there is no valid path
PlanFailed ==
    /\ last.op = "update" /\ last.pre /\ last.in.poseOk /\ ~last.in.goalReached
    /\ last.in.plan = "CombinedPlannerException" \/ ~last.in.validPath

\* C9: an Active tick on which update throws a planning error, or returns
\* with no valid path, lets no error escape, ends Idle, calls cancelAllGoals
\* once and pushes no path.
C9_PlanFailureDeactivates ==
    PlanFailed =>
        /\ ~last.escaped
        /\ ~active_
        /\ Calls({"cancelAllGoals"}) = 1
        /\ Calls(PathPushes) = 0

\* planner_.update threw during an Active tick
C9_Witness ==
    /\ PlanFailed /\ last.in.plan = "CombinedPlannerException"
    /\ Calls({"update"}) = 1 /\ Calls({"ROS_ERROR"}) = 1

\* C10: the state changes from Idle to Active only in a goal request.
C10_OnlyGoalActivates ==
    [][(~active_ /\ active_') => last'.op = "updateGoal"]_vars

\* a goal request took the node from Idle to Active
C10_Witness ==
    last.op = "updateGoal" /\ ~last.pre /\ active_ /\ motion_ac_ = "running"

\* C11: once a map has been received, every path handed to the executor, in
\* the sendGoal of an activation or published on a tick, carries the frame id
\* of the last map received.
C11_PathsInMapFrame ==
    got_map_ =>
        \A k \in 1..Len(last.calls) :
            last.calls[k].call \in PathPushes =>
                last.calls[k].frame = gmap_cpy_.frame_id

\* the handler l was a tick of an active mission on which the pose lookup
\* succeeded, the goal was not reached, update returned and the path is valid
GoodTick(l) ==
    /\ l.op = "update" /\ l.pre
    /\ l.in.poseOk /\ ~l.in.goalReached /\ l.in.plan = "ok" /\ l.in.validPath

\* the handler l was a tick with a failed pose lookup, a reached goal, a
\* planning exception or no valid path
FailedTick(l) ==
    /\ l.op = "update"
    /\ \/ ~l.in.poseOk
       \/ l.in.goalReached
       \/ l.in.plan = "CombinedPlannerException"
       \/ ~l.in.validPath

\* C12: the state changes from Active to Idle only on a tick that fails (no
\* pose, goal reached, planning exception, no valid path) or in a goal
\* request; a tick of an active mission on which none of these happens
\* leaves the state Active and calls cancelAllGoals zero times.
C12_LeavesActiveOnlyOnFailure ==
    [][ /\ (active_ /\ ~active_') =>
               (last'.op = "updateGoal" \/ FailedTick(last'))
        /\ GoodTick(last') =>
               (active_' /\ Count(last'.calls, {"cancelAllGoals"}) = 0) ]_vars

\* an active mission stays active over several ticks without a new path
C12_Witness ==
    GoodTick(last) /\ ~last.in.newLocalPath /\ active_ /\ quiet.ticks >= 3

\* C13: every goal request begins with deactivate(), whatever the state;
\* every deactivate() calls cancelAllGoals before it clears active_ and
\* publishes one empty path after; so active_ goes from true to false only
\* between a cancelAllGoals and the empty path that follows it.
C13_DeactivateProtocol ==
    LET cs == last.calls
    IN  /\ last.op = "updateGoal" =>
              /\ Len(cs) >= 4
              /\ cs[1].call = "ROS_INFO" /\ cs[1].active = last.pre
              /\ cs[2].call = "ROS_INFO"
              /\ cs[3].call = "cancelAllGoals"
              /\ cs[4].call = "publishEmptyLocalPath"
        /\ \A k \in 1..Len(cs) :
              cs[k].call = "cancelAllGoals" =>
                  /\ k > 1 /\ cs[k-1].call = "ROS_INFO"
                  /\ cs[k].active = cs[k-1].active
                  /\ k < Len(cs) /\ cs[k+1].call = "publishEmptyLocalPath"
                  /\ ~cs[k+1].active
        /\ \A k \in 1..Len(cs) :
              cs[k].call = "publishEmptyLocalPath" =>
                  k > 1 /\ cs[k-1].call = "cancelAllGoals"
        /\ \A k \in 1..Len(cs) - 1 :
              (cs[k].active /\ ~cs[k+1].active) => cs[k].call = "cancelAllGoals"
        /\ (Len(cs) > 0 /\ last.pre) => cs[1].active
        /\ (Len(cs) > 0 /\ cs[Len(cs)].active) => active_
        /\ (Len(cs) = 0) => (active_ = last.pre)

\* a goal request found the mission active, deactivated it and then failed
C13_Witness ==
    /\ last.op = "updateGoal" /\ last.pre /\ ~active_
    /\ last.calls[3].active /\ ~last.calls[4].active

\* C14: the replan hint passed to planner_.update on a tick is true when more
\* than ForceReplanIntervalMs have passed since the replan timer was last
\* restarted, and false otherwise.
C14_HintFollowsTimer ==
    last.op = "update" =>
        \A k \in 1..Len(last.calls) :
            last.calls[k].call = "update" =>
                (last.calls[k].hint <=> last.elapsed > ForceReplanIntervalMs)

CalledBefore(cs, a, k) == \E j \in 1..(k - 1) : cs[j].call = a

\* C16: in a goal request setGoal comes after setGlobalMap and setLocalMap,
\* after a pose lookup that succeeded and, for a goal in a foreign frame,
\* after a conversion that succeeded; on a tick update comes after
\* setLocalMap; and update is called only once some setGoal has returned.
C16_SettersBeforeUse ==
    LET cs == last.calls
    IN  /\ last.op = "updateGoal" =>
              \A k \in 1..Len(cs) :
                  cs[k].call = "setGoal" =>
                      /\ CalledBefore(cs, "setGlobalMap", k)
                      /\ CalledBefore(cs, "setLocalMap", k)
                      /\ CalledBefore(cs, "lookupTransform", k)
                      /\ last.in.poseOk
                      /\ ForeignFrame =>
                             (last.in.tfOk /\ CalledBefore(cs, "transformPose", k))
        /\ \A k \in 1..Len(cs) :
              cs[k].call = "update" =>
                  /\ last.op = "update"
                  /\ CalledBefore(cs, "setLocalMap", k)
                  /\ planner_.goal

\* setGoal was called for a goal converted from /odom into the map frame
C16_Witness ==
    /\ last.op = "updateGoal" /\ Calls({"setGoal"}) = 1
    /\ last.in.frame = "/odom" /\ gmap_frame_id_ = "/map"
    /\ Calls({"transformPose"}) = 1

\* what updateMap and motionCtrlDoneCB leave alone on a step: the mission
\* state, the replan timer, what the engine was given by a call, and no
\* call is made
QuietHandlerStep ==
    /\ active_' = active_
    /\ replan_timer_' = replan_timer_
    /\ planner_' = planner_
    /\ last'.calls = <<>>

C18_NoGoalBeforeMap ==
    ~got_map_ =>
        /\ Calls({"setGlobalMap", "setGoal"}) = 0
        /\ ~active_

\* C19: activate() is entered only with active_ false, straight after
\* hasValidPath, so its guard calls no deactivate(); every goal request calls
\* cancelAllGoals once and publishes one empty path, whatever the state
\* before and whatever the outcome.
C19_ActivateEnteredIdle ==
    last.op = "updateGoal" =>
        LET cs == last.calls
        IN  /\ Calls({"cancelAllGoals"}) = 1
            /\ Calls({"publishEmptyLocalPath"}) = 1
            /\ \A k \in 1..Len(cs) :
                  cs[k].call = "waitForServer" =>
                      /\ k > 1
                      /\ cs[k-1].call = "hasValidPath"
                      /\ ~cs[k-1].active

\* a goal request found the mission active and activated the new goal
C19_Witness ==
    /\ last.op = "updateGoal" /\ last.pre /\ active_
    /\ Calls({"waitForServer"}) = 1 /\ Calls({"sendGoal"}) = 1

====
